---- MODULE Spec2Model ----
(***************************************************************************)
(* A model of orcatrjvis.py: the imaginary-mode extraction and alignment   *)
(* pipeline (log mode, trajectory mode, Hessian mode), its movie output    *)
(* directories, the YAML snapshot and the HTML reports.                    *)
(*                                                                         *)
(* Strings are sequences of one-character strings, so that str.replace,    *)
(* os.path.split/join, str.format, natsorted and the YAML scalars are      *)
(* computed character by character.  Frequencies are integers (a unit of   *)
(* the wavenumber); only their sign and their identity matter to the code. *)
(***************************************************************************)
EXTENDS Integers, Sequences, FiniteSets, TLC

VARIABLES
    mode,        \* args: "imgvib" | "trj" | "hess"
    paths,       \* the artifact list run() iterates over
    content,     \* the disk: what each artifact file holds
    tool,        \* how the external orca_pltvib announces its trajectories
    pc,          \* position of run(): "loop" | "done" | "failed"
    failure,     \* the exception that ended the invocation ("none" if none)
    k,           \* number of artifacts processed by the comprehension
    imgvib_dict, \* the mapping under construction (insertion ordered)
    movie_fns,   \* trajectory mode: the movies made so far
    disk,        \* output directories, scripts, frames and movie files
    snapshot,    \* text of imgvibs.yaml (a YAML document), <<>> if absent
    report,      \* imgvib_report.html: the rendered (fn, records) sections
    trj_report,  \* trj_report.html: the rendered (trj_fn, movie_fn) pairs
    wrote,       \* files this invocation has written in the working dir
    calls,       \* history: movie_from_trajectory calls of this invocation
    zips,        \* history: the sequences each assembler call zipped
    runs         \* number of invocations started

vars == <<mode, paths, content, tool, pc, failure, k, imgvib_dict, movie_fns,
          disk, snapshot, report, trj_report, wrote, calls, zips, runs>>

----------------------------------------------------------------------------
(* Bounds of the model.                                                     *)

MaxModes == 2      \* lines of an $ir_spectrum block / imaginary freqs of a log
MaxRuns == 2       \* invocations against the same root directory
MaxKeys == 3       \* keys of a mapping handed to create_imgvib_report
MaxSpectrum == 3   \* lines of a spectrum in the parser-only specification

----------------------------------------------------------------------------
(* Characters and strings.                                                  *)

\* The characters in use, in code-point order.
Alphabet ==
    <<"-", ".", "/", "0", "1", "2", "3", "4", "5", "6", "7", "8", "9", "_",
      "a", "b", "c", "d", "e", "f", "g", "h", "i", "j", "k", "l", "m", "n",
      "o", "p", "q", "r", "s", "t", "u", "v", "w", "x", "y", "z">>

\* The rank of each character in code-point order.
CodeTable ==
    [c \in {Alphabet[i] : i \in 1..Len(Alphabet)} |->
        CHOOSE i \in 1..Len(Alphabet) : Alphabet[i] = c]

Code(c) == CodeTable[c]

Digits == {"0", "1", "2", "3", "4", "5", "6", "7", "8", "9"}

IsDigit(c) == c \in Digits

DigitVal(c) == Code(c) - Code("0")

\* Python's str comparison: lexicographic by code point.
RECURSIVE StrLess(_, _)
StrLess(a, b) ==
    IF b = <<>> THEN FALSE
    ELSE IF a = <<>> THEN TRUE
    ELSE IF Code(Head(a)) # Code(Head(b)) THEN Code(Head(a)) < Code(Head(b))
    ELSE StrLess(Tail(a), Tail(b))

\* str(n) for a non-negative int.
RECURSIVE PyStr(_)
PyStr(n) ==
    IF n < 10 THEN <<Alphabet[Code("0") + n]>>
    ELSE PyStr(n \div 10) \o <<Alphabet[Code("0") + (n % 10)]>>

\* int(s) for a string of digits.
RECURSIVE PyInt(_)
PyInt(s) ==
    IF s = <<>> THEN 0
    ELSE 10 * PyInt(SubSeq(s, 1, Len(s) - 1)) + DigitVal(s[Len(s)])

\* s.replace(".", "-")
ReplaceDots(s) == [i \in 1..Len(s) |-> IF s[i] = "." THEN "-" ELSE s[i]]

\* Position of the last "/" of p, 0 if none.
LastSlash(p) ==
    IF \E i \in 1..Len(p) : p[i] = "/"
    THEN CHOOSE i \in 1..Len(p) :
             p[i] = "/" /\ \A j \in (i + 1)..Len(p) : p[j] # "/"
    ELSE 0

\* os.path.split(p)[0] (no path of the model has a doubled or trailing "/").
PathHead(p) ==
    IF LastSlash(p) <= 1 THEN SubSeq(p, 1, LastSlash(p))
    ELSE SubSeq(p, 1, LastSlash(p) - 1)

\* os.path.basename(p)
Basename(p) == SubSeq(p, LastSlash(p) + 1, Len(p))

\* os.path.join(a, b)
PathJoin(a, b) ==
    IF b # <<>> /\ b[1] = "/" THEN b
    ELSE IF a = <<>> \/ a[Len(a)] = "/" THEN a \o b
    ELSE a \o <<"/">> \o b

----------------------------------------------------------------------------
(* natsorted: the natural sort key and the stable sort on it.               *)

\* End of the maximal run of characters of the class of s[i] starting at i.
RECURSIVE RunEnd(_, _)
RunEnd(s, i) ==
    IF i < Len(s) /\ IsDigit(s[i + 1]) = IsDigit(s[i]) THEN RunEnd(s, i + 1)
    ELSE i

\* The chunks of s from position i on: digit runs as ints, the rest as text.
RECURSIVE NatChunks(_, _)
NatChunks(s, i) ==
    IF i > Len(s) THEN <<>>
    ELSE LET j == RunEnd(s, i)
             c == SubSeq(s, i, j)
         IN  <<IF IsDigit(s[i]) THEN [num |-> TRUE, n |-> PyInt(c), s |-> <<>>]
               ELSE [num |-> FALSE, n |-> 0, s |-> c]>>
             \o NatChunks(s, j + 1)

\* natsort's key: text and numbers alternate, starting with text.
NatKey(s) ==
    IF s # <<>> /\ IsDigit(s[1])
    THEN <<[num |-> FALSE, n |-> 0, s |-> <<>>]>> \o NatChunks(s, 1)
    ELSE NatChunks(s, 1)

ChunkLess(a, b) == IF a.num THEN a.n < b.n ELSE StrLess(a.s, b.s)

\* Python's tuple comparison of two keys.
RECURSIVE KeyLess(_, _)
KeyLess(a, b) ==
    IF b = <<>> THEN FALSE
    ELSE IF a = <<>> THEN TRUE
    ELSE IF Head(a) # Head(b) THEN ChunkLess(Head(a), Head(b))
    ELSE KeyLess(Tail(a), Tail(b))

NatLess(a, b) == KeyLess(NatKey(a), NatKey(b))

\* The order a sort compares by: natsort's key, or plain str comparison.
OrderLess(order, a, b) == IF order = "natural" THEN NatLess(a, b) ELSE StrLess(a, b)

\* Insert x behind every element of the sorted t that is not greater than it.
RECURSIVE InsertSorted(_, _, _)
InsertSorted(x, t, order) ==
    IF t = <<>> THEN <<x>>
    ELSE IF OrderLess(order, x, Head(t)) THEN <<x>> \o t
    ELSE <<Head(t)>> \o InsertSorted(x, Tail(t), order)

\* sorted(): a stable sort.
RECURSIVE StableSort(_, _)
StableSort(s, order) ==
    IF s = <<>> THEN <<>>
    ELSE InsertSorted(s[Len(s)], StableSort(SubSeq(s, 1, Len(s) - 1), order), order)

natsortedLexicographic(s) == StableSort(s, "codepoint")

natsorted(s) == StableSort(s, "natural")

----------------------------------------------------------------------------
(* String constants of the program.                                         *)

IMGVIB == <<"i", "m", "g", "v", "i", "b">>
OPT == <<"o", "p", "t">>
GIF == <<".", "g", "i", "f">>
ANIMATE_SPT == <<"a", "n", "i", "m", "a", "t", "e", ".", "s", "p", "t">>
EMPTY == <<>>

\* Files of the working directory.
YAML_FILE == "imgvibs.yaml"
IMGVIB_REPORT_FILE == "imgvib_report.html"
TRJ_REPORT_FILE == "trj_report.html"

Range(s) == {s[i] : i \in 1..Len(s)}

Min(a, b) == IF a < b THEN a ELSE b

----------------------------------------------------------------------------
(* movie_from_trajectory                                                    *)

NoDisk == [dirs |-> {}, scripts |-> {}, frames |-> {}, movies |-> {}]

mkdirRaising(dirs, d) ==
    IF d \in dirs THEN [dirs |-> dirs, error |-> "FileExistsError"]
    ELSE [dirs |-> dirs \cup {d}, error |-> "none"]

\* try: os.mkdir(trj_dir) / except FileExistsError: pass
mkdir(dirs, d) == [dirs |-> dirs \cup {d}, error |-> "none"]

\* One call.  The result holds the disk afterwards, the returned movie_fn, the
\* exception that left the function ("none" if it returned) and a history
\* record of the call.  scripts, frames and movies are the files of the output
\* directories with what they were made from: a script with the trajectory it
\* loads, the frames of a directory with the trajectories they were rendered
\* from, a movie with the trajectories of the frames it was encoded from.
movie_from_trajectory(d, trj_fn, movie_base_fn, trj_ind, trj_dir_suf) ==
    LET head == PathHead(trj_fn)
        trj_dir == PathJoin(head, movie_base_fn \o trj_dir_suf \o trj_ind)
        made == mkdir(d.dirs, trj_dir)
        jmol_script_fn == PathJoin(trj_dir, ANIMATE_SPT)
        scripts == {sc \in d.scripts : sc[1] # jmol_script_fn}
                       \cup {<<jmol_script_fn, trj_fn>>}
        frames == d.frames \cup {<<trj_dir, trj_fn>>}
        image_fns == {f[2] : f \in {g \in frames : g[1] = trj_dir}}
        movie_fn == PathJoin(trj_dir, movie_base_fn \o trj_ind \o GIF)
        movies == {m \in d.movies : m[1] # movie_fn}
                      \cup {<<movie_fn, image_fns>>}
        call == [trj_fn |-> trj_fn, trj_dir |-> trj_dir, movie_fn |-> movie_fn,
                 existed |-> trj_dir \in d.dirs]
    IN  IF made.error # "none"
        THEN [disk |-> d, movie_fn |-> EMPTY, error |-> made.error,
              call |-> [call EXCEPT !.movie_fn = EMPTY]]
        ELSE [disk |-> [dirs |-> made.dirs, scripts |-> scripts,
                        frames |-> frames, movies |-> movies],
              movie_fn |-> movie_fn, error |-> "none", call |-> call]

\* [movie_from_trajectory(trj_fn, base, trj_ind, suf) for trj_fn, trj_ind in
\*  zip(trj_fns, inds)], from position i on; acc threads the disk, the movies
\* made and the calls through the comprehension.
RECURSIVE MovieLoop(_, _, _, _, _, _)
MovieLoop(acc, trj_fns, inds, movie_base_fn, trj_dir_suf, i) ==
    IF i > Min(Len(trj_fns), Len(inds)) \/ acc.error # "none" THEN acc
    ELSE LET r == movie_from_trajectory(acc.disk, trj_fns[i], movie_base_fn,
                                        inds[i], trj_dir_suf)
         IN  MovieLoop([disk |-> r.disk,
                        movie_fns |-> IF r.error = "none"
                                      THEN Append(acc.movie_fns, r.movie_fn)
                                      ELSE acc.movie_fns,
                        calls |-> Append(acc.calls, r.call),
                        error |-> r.error],
                       trj_fns, inds, movie_base_fn, trj_dir_suf, i + 1)

MovieLoopStart(d) == [disk |-> d, movie_fns |-> <<>>, calls |-> <<>>, error |-> "none"]

----------------------------------------------------------------------------
(* run_orca_pltvib and the external tool                                    *)

\* The ways the external tool may announce the trajectories it creates for
\* the requested modes: each in request order, in reverse order, all but the
\* last one, or one more than requested.
ToolBehaviours == {"faithful", "reversed", "droplast", "extra"}

\* The modes whose trajectories the tool announces, in announcement order.
ToolAnnounces(behaviour, vib_indices) ==
    LET n == Len(vib_indices)
    IN  CASE behaviour = "faithful" -> vib_indices
          [] behaviour = "reversed" -> [i \in 1..n |-> vib_indices[n + 1 - i]]
          [] behaviour = "droplast" -> SubSeq(vib_indices, 1, n - 1)
          [] behaviour = "extra" ->
                 Append(vib_indices, IF n = 0 THEN 0 ELSE vib_indices[n] + 1)

\* The path of the trajectory the tool creates for mode i of artifact fn.
TrjPath(fn, i) == fn \o <<".", "v">> \o PyStr(i) \o <<".", "x", "y", "z">>

\* One invocation of the tool with all indices; the paths of its
\* "creating: <path>" lines, in the order printed.
run_orca_pltvib(behaviour, fn, vib_indices) ==
    LET announced == ToolAnnounces(behaviour, vib_indices)
    IN  [i \in 1..Len(announced) |-> TrjPath(fn, announced[i])]

----------------------------------------------------------------------------
(* The assembler: zip(indices, values, movie_fns) into ImgVib records.      *)

ImgVib(fn, index, value, movie) ==
    [fn |-> fn, index |-> index, value |-> value, movie |-> movie]

Min3(a, b, c) == Min(a, Min(b, c))

ZipImgVibs(fn, indices, values, movies) ==
    [i \in 1..Min3(Len(indices), Len(values), Len(movies)) |->
        ImgVib(fn, indices[i], values[i], movies[i])]

IndexStrs(indices) == [i \in 1..Len(indices) |-> PyStr(indices[i])]

----------------------------------------------------------------------------
(* imgvibs_from_orca_log                                                    *)

IndexRangeFromZero(n) == [i \in 1..n |-> i - 1]

\* range(6, 6 + n)
IndexRange(n) == [i \in 1..n |-> 6 + i - 1]

\* imgvibfreqs is what the Orca parser found in the log.  The result holds the
\* disk afterwards, the records, the calls made and a history record of the
\* sequences that were zipped.
imgvibs_from_orca_log(d, behaviour, orca_log_fn, imgvibfreqs) ==
    LET index_range == IndexRange(Len(imgvibfreqs))
        trj_fns == run_orca_pltvib(behaviour, orca_log_fn, index_range)
        loop == MovieLoop(MovieLoopStart(d), trj_fns, IndexStrs(index_range),
                          IMGVIB, EMPTY, 1)
        imgvibs == ZipImgVibs(orca_log_fn, index_range, imgvibfreqs,
                              loop.movie_fns)
    IN  [disk |-> loop.disk, imgvibs |-> imgvibs, calls |-> loop.calls,
         error |-> loop.error,
         zip |-> [fn |-> orca_log_fn, source |-> imgvibfreqs,
                  requests |-> <<index_range>>, trj_fns |-> trj_fns,
                  indices |-> index_range, values |-> imgvibfreqs,
                  movies |-> loop.movie_fns, records |-> imgvibs]]

----------------------------------------------------------------------------
(* imgvibs_from_orca_hess                                                   *)

\* The text of a .hess file, as far as the code reads it: whether the
\* $ir_spectrum block is there (freq_re matches), and the lines of its body,
\* each a sequence of whitespace-separated tokens.  A token is the text of a
\* number (sign and magnitude) or something float() rejects.  The declared
\* mode count is matched by the pattern and never used.
NumTok(neg, mag) == [num |-> TRUE, neg |-> neg, mag |-> mag]
JunkTok == [num |-> FALSE, neg |-> FALSE, mag |-> 0]

\* float(token) for the text of a number; "-0.0" gives a zero.
PyFloat(tok) == IF tok.neg THEN 0 - tok.mag ELSE tok.mag

\* Lines 166-171: the error raised, or the parsed spectrum.
ParseSpectrum(hess) ==
    IF ~hess.block THEN [error |-> "AttributeError", allvibs |-> <<>>]
    ELSE IF \E i \in 1..Len(hess.lines) : hess.lines[i] = <<>>
    THEN [error |-> "IndexError", allvibs |-> <<>>]
    ELSE IF \E i \in 1..Len(hess.lines) : ~hess.lines[i][1].num
    THEN [error |-> "ValueError", allvibs |-> <<>>]
    ELSE [error |-> "none",
          allvibs |-> [i \in 1..Len(hess.lines) |-> PyFloat(hess.lines[i][1])]]

IsImaginaryOrZero(iv) == iv <= 0

\* iv < 0
IsImaginary(iv) == iv < 0

\* [i for i, iv in enumerate(allvibs) if iv < 0], from list position i on.
RECURSIVE EnumerateImaginary(_, _)
EnumerateImaginary(allvibs, i) ==
    IF i > Len(allvibs) THEN <<>>
    ELSE (IF IsImaginary(allvibs[i]) THEN <<i - 1>> ELSE <<>>)
             \o EnumerateImaginary(allvibs, i + 1)

imgvibs_from_orca_hess(d, behaviour, hess_fn, hess) ==
    LET parsed == ParseSpectrum(hess)
        allvibs == parsed.allvibs
        imgvib_indices == EnumerateImaginary(allvibs, 1)
        imgvibs == [j \in 1..Len(imgvib_indices) |-> allvibs[imgvib_indices[j] + 1]]
        trj_fns == run_orca_pltvib(behaviour, hess_fn, imgvib_indices)
        trj_dir_suf == <<"_">> \o Basename(ReplaceDots(hess_fn))
        loop == MovieLoop(MovieLoopStart(d), trj_fns, IndexStrs(imgvib_indices),
                          IMGVIB, trj_dir_suf, 1)
        records == ZipImgVibs(hess_fn, imgvib_indices, imgvibs, loop.movie_fns)
    IN  IF parsed.error # "none"
        THEN [disk |-> d, imgvibs |-> <<>>, calls |-> <<>>,
              error |-> parsed.error,
              zip |-> [fn |-> hess_fn, source |-> <<>>, requests |-> <<>>,
                       trj_fns |-> <<>>, indices |-> <<>>, values |-> <<>>,
                       movies |-> <<>>, records |-> <<>>]]
        ELSE [disk |-> loop.disk, imgvibs |-> records, calls |-> loop.calls,
              error |-> loop.error,
              zip |-> [fn |-> hess_fn, source |-> allvibs,
                       requests |-> <<imgvib_indices>>, trj_fns |-> trj_fns,
                       indices |-> imgvib_indices, values |-> imgvibs,
                       movies |-> loop.movie_fns, records |-> records]]

----------------------------------------------------------------------------
(* save_imgvibs: the YAML snapshot and the report                           *)

\* An insertion-ordered dict is a sequence of [key, val] entries with
\* distinct keys.
Keys(d) == [i \in 1..Len(d) |-> d[i].key]

Lookup(d, key) == (CHOOSE e \in Range(d) : e.key = key).val

\* repr() of a float that holds a whole number: "-2.0".
FloatRepr(v) ==
    (IF v < 0 THEN <<"-">> ELSE <<>>) \o PyStr(IF v < 0 THEN 0 - v ELSE v)
        \o <<".", "0">>

\* yaml.dump of one ImgVib: a python/object/new node whose arguments are the
\* fields in the order of the namedtuple, each a scalar with its YAML type.
YamlRepresent(iv) ==
    [tag |-> "python/object/new:ImgVib",
     args |-> <<[type |-> "str", text |-> iv.fn],
                [type |-> "int", text |-> PyStr(iv.index)],
                [type |-> "float", text |-> FloatRepr(iv.value)],
                [type |-> "str", text |-> iv.movie]>>]

\* yaml.dump(imgvib_dict): a block mapping, its keys sorted as strings.
YamlDump(d) ==
    LET keys == StableSort(Keys(d), "codepoint")
    IN  [i \in 1..Len(keys) |->
            [key |-> keys[i],
             nodes |-> [j \in 1..Len(Lookup(d, keys[i])) |->
                           YamlRepresent(Lookup(d, keys[i])[j])]]]

NoFile == [exists |-> FALSE, text |-> <<>>]

openAppend(prior, text) == [exists |-> TRUE, text |-> prior.text \o text]

\* open(fn, "w"); handle.write(text): the prior text is gone.
openWrite(prior, text) == [exists |-> TRUE, text |-> text]

\* What the template prints of one record.
Render(iv) == [index |-> iv.index, value |-> iv.value, movie |-> iv.movie]

create_imgvib_reportReversed(mapping) ==
    LET natsorted_keys == natsorted(Keys(mapping))
    IN  [i \in 1..Len(natsorted_keys) |->
            [fn |-> natsorted_keys[i],
             records |->
                 LET ivs == Lookup(mapping, natsorted_keys[i])
                 IN  [j \in 1..Len(ivs) |-> Render(ivs[Len(ivs) + 1 - j])]]]

\* The sections of the rendered report: one per key, in natsorted order, each
\* with the records of the key in their order.
create_imgvib_report(mapping) ==
    LET natsorted_keys == natsorted(Keys(mapping))
    IN  [i \in 1..Len(natsorted_keys) |->
            [fn |-> natsorted_keys[i],
             records |->
                 LET ivs == Lookup(mapping, natsorted_keys[i])
                 IN  [j \in 1..Len(ivs) |-> Render(ivs[j])]]]

\* What may go wrong in save_imgvibs: nothing, or the report cannot be
\* rendered or written.
SaveOutcomes == {"ok", "report_error"}

save_imgvibsReportFirst(mapping, prior_snapshot, prior_report, io) ==
    IF io = "report_error"
    THEN [snapshot |-> prior_snapshot, report |-> prior_report,
          wrote |-> {}, error |-> "report_error"]
    ELSE [snapshot |-> openWrite(prior_snapshot, YamlDump(mapping)),
          report |-> openWrite(prior_report, create_imgvib_report(mapping)),
          wrote |-> {YAML_FILE, IMGVIB_REPORT_FILE}, error |-> "none"]

\* The snapshot is written first, then the report.
save_imgvibs(mapping, prior_snapshot, prior_report, io) ==
    IF io = "report_error"
    THEN [snapshot |-> openWrite(prior_snapshot, YamlDump(mapping)),
          report |-> prior_report,
          wrote |-> {YAML_FILE}, error |-> "report_error"]
    ELSE [snapshot |-> openWrite(prior_snapshot, YamlDump(mapping)),
          report |-> openWrite(prior_report, create_imgvib_report(mapping)),
          wrote |-> {YAML_FILE, IMGVIB_REPORT_FILE}, error |-> "none"]

\* zip(trj_fns, movie_fns), as the template lists it.
create_trj_report(trj_fns, movies) ==
    [i \in 1..Min(Len(trj_fns), Len(movies)) |->
        [trj_fn |-> trj_fns[i], movie_fn |-> movies[i]]]

----------------------------------------------------------------------------
(* The root directories and artifacts the model runs on.                    *)

LogFiles ==
    {<<"d", "/", "r", "2", ".", "o", "u", "t">>,
     <<"d", "/", "r", "1", "0", ".", "o", "u", "t">>}

HessFiles ==
    {<<"d", "/", "r", ".", "2", ".", "h", "e", "s", "s">>,
     <<"d", "/", "r", "-", "2", ".", "h", "e", "s", "s">>}

TrjFiles ==
    {<<"d", "/", "o", "2", ".", "t", "r", "j">>,
     <<"d", "/", "o", "1", "0", ".", "t", "r", "j">>,
     <<"e", "/", "o", "2", ".", "t", "r", "j">>}

\* Every listing of a part of the files, each file at most once.
Listings(files) ==
    {l \in UNION {[1..n -> files] : n \in 0..Cardinality(files)} :
        \A i, j \in 1..Len(l) : i # j => l[i] # l[j]}

\* Sequences over a set with lengths lo..hi.
SeqsOf(S, lo, hi) == UNION {[1..n -> S] : n \in lo..hi}

\* What the Orca parser may report for a log: up to MaxModes imaginary freqs.
LogFreqs == {-2, -1}
LogContents == SeqsOf(LogFreqs, 0, MaxModes)

\* A line of a spectrum: the frequency, then the intensity column.
SpectrumLine(tok) == <<tok, NumTok(FALSE, 0)>>

HessTexts(toks, n) ==
    {[block |-> TRUE, lines |-> l] :
        l \in SeqsOf({SpectrumLine(t) : t \in toks}, 1, n)}

NoSpectrum == [block |-> FALSE, lines |-> <<>>]

\* The .hess files of the pipeline: spectra of up to MaxModes lines, or no
\* $ir_spectrum block at all.
PipelineToks == {NumTok(TRUE, 1), NumTok(FALSE, 1)}
HessContents == HessTexts(PipelineToks, MaxModes) \cup {NoSpectrum}

\* The .hess files of the parser-only specification: every sign and a zero
\* magnitude, a line float() rejects, an empty line, up to MaxSpectrum lines.
ParserToks ==
    {NumTok(neg, mag) : neg \in BOOLEAN, mag \in {0, 1, 2}} \cup {JunkTok}
ParserContents ==
    {[block |-> TRUE, lines |-> l] :
        l \in SeqsOf({SpectrumLine(t) : t \in ParserToks} \cup {<<>>},
                     1, MaxSpectrum)} \cup {NoSpectrum}

\* An imgvibs.yaml left in the working directory by an earlier invocation on
\* another root directory.
OLD_FN == <<"o", "l", "d", ".", "o", "u", "t">>
StaleSnapshot ==
    [exists |-> TRUE,
     text |-> YamlDump(<<[key |-> OLD_FN,
                          val |-> <<ImgVib(OLD_FN, 6, -1, IMGVIB \o GIF)>>]>>)]

\* search_files_with_ext for the mode; natsorted() in trj and hess mode.
PathLists(m) ==
    CASE m = "imgvib" -> Listings(LogFiles)
      [] m = "trj" -> {natsorted(l) : l \in Listings(TrjFiles)}
      [] m = "hess" -> {natsorted(l) : l \in Listings(HessFiles)}

Contents(m) ==
    CASE m = "imgvib" -> LogContents
      [] m = "trj" -> {<<>>}
      [] m = "hess" -> HessContents

----------------------------------------------------------------------------
(* run()                                                                    *)

\* The state after parse_args and the file search.
Fresh ==
    /\ pc = "loop"
    /\ failure = "none"
    /\ k = 0
    /\ imgvib_dict = <<>>
    /\ movie_fns = <<>>
    /\ disk = NoDisk
    /\ report = NoFile
    /\ trj_report = NoFile
    /\ wrote = {}
    /\ calls = <<>>
    /\ zips = <<>>
    /\ runs = 1

Init ==
    /\ mode \in {"imgvib", "trj", "hess"}
    /\ paths \in PathLists(mode)
    /\ content \in [Range(paths) -> Contents(mode)]
    /\ tool \in (IF mode = "trj" THEN {"faithful"} ELSE ToolBehaviours)
    /\ snapshot \in (IF mode = "trj" THEN {NoFile} ELSE {NoFile, StaleSnapshot})
    /\ Fresh

\* One iteration of a dict comprehension: the entry is inserted, or the
\* exception of the artifact ends the invocation.
Iterate(fn, r) ==
    /\ disk' = r.disk
    /\ calls' = calls \o r.calls
    /\ zips' = Append(zips, r.zip)
    /\ IF r.error = "none"
       THEN /\ imgvib_dict' = Append(imgvib_dict, [key |-> fn, val |-> r.imgvibs])
            /\ k' = k + 1
            /\ UNCHANGED <<pc, failure>>
       ELSE /\ pc' = "failed"
            /\ failure' = r.error
            /\ UNCHANGED <<imgvib_dict, k>>
    /\ UNCHANGED <<mode, paths, content, tool, movie_fns, snapshot, report,
                   trj_report, wrote, runs>>

\* {log_fn: imgvibs_from_orca_log(log_fn) for log_fn in log_paths}, one step.
LogStep ==
    /\ mode = "imgvib" /\ pc = "loop" /\ k < Len(paths)
    /\ LET fn == paths[k + 1]
       IN  Iterate(fn, imgvibs_from_orca_log(disk, tool, fn, content[fn]))

\* {hess_fn: imgvibs_from_orca_hess(hess_fn) for hess_fn in hess_fns}, one step.
HessStep ==
    /\ mode = "hess" /\ pc = "loop" /\ k < Len(paths)
    /\ LET fn == paths[k + 1]
       IN  Iterate(fn, imgvibs_from_orca_hess(disk, tool, fn, content[fn]))

\* [movie_from_trajectory(trj_fn, "opt") for trj_fn in trj_fns], one step.
TrjStep ==
    /\ mode = "trj" /\ pc = "loop" /\ k < Len(paths)
    /\ LET r == movie_from_trajectory(disk, paths[k + 1], OPT, EMPTY, EMPTY)
       IN  /\ disk' = r.disk
           /\ calls' = Append(calls, r.call)
           /\ IF r.error = "none"
              THEN /\ movie_fns' = Append(movie_fns, r.movie_fn)
                   /\ k' = k + 1
                   /\ UNCHANGED <<pc, failure>>
              ELSE /\ pc' = "failed"
                   /\ failure' = r.error
                   /\ UNCHANGED <<movie_fns, k>>
    /\ UNCHANGED <<mode, paths, content, tool, imgvib_dict, snapshot, report,
                   trj_report, wrote, zips, runs>>

\* save_imgvibs(imgvib_dict) once the comprehension is through.
SaveStep ==
    /\ mode \in {"imgvib", "hess"} /\ pc = "loop" /\ k = Len(paths)
    /\ \E io \in SaveOutcomes :
          LET r == save_imgvibs(imgvib_dict, snapshot, report, io)
          IN  /\ snapshot' = r.snapshot
              /\ report' = r.report
              /\ wrote' = wrote \cup r.wrote
              /\ failure' = r.error
              /\ pc' = IF r.error = "none" THEN "done" ELSE "failed"
    /\ UNCHANGED <<mode, paths, content, tool, k, imgvib_dict, movie_fns, disk,
                   trj_report, calls, zips, runs>>

\* create_trj_report(trj_fns, movie_fns) once the comprehension is through.
TrjReportStep ==
    /\ mode = "trj" /\ pc = "loop" /\ k = Len(paths)
    /\ \E io \in {"ok", "report_error"} :
          IF io = "ok"
          THEN /\ trj_report' = openWrite(trj_report,
                                          create_trj_report(paths, movie_fns))
               /\ wrote' = wrote \cup {TRJ_REPORT_FILE}
               /\ pc' = "done"
               /\ UNCHANGED failure
          ELSE /\ pc' = "failed"
               /\ failure' = "report_error"
               /\ UNCHANGED <<trj_report, wrote>>
    /\ UNCHANGED <<mode, paths, content, tool, k, imgvib_dict, movie_fns, disk,
                   snapshot, report, calls, zips, runs>>

\* The program is run again on the same root directory: what the earlier
\* invocations left on disk is still there.
Rerun ==
    /\ pc \in {"done", "failed"} /\ runs < MaxRuns
    /\ runs' = runs + 1
    /\ pc' = "loop"
    /\ failure' = "none"
    /\ k' = 0
    /\ imgvib_dict' = <<>>
    /\ movie_fns' = <<>>
    /\ wrote' = {}
    /\ calls' = <<>>
    /\ zips' = <<>>
    /\ UNCHANGED <<mode, paths, content, tool, disk, snapshot, report, trj_report>>

Next == LogStep \/ HessStep \/ TrjStep \/ SaveStep \/ TrjReportStep \/ Rerun

Spec == Init /\ [][Next]_vars

----------------------------------------------------------------------------
(* The Hessian parser alone: one .hess file of any content, parsed once.    *)

InitHess ==
    /\ mode = "hess"
    /\ paths \in {<<f>> : f \in HessFiles}
    /\ content \in [Range(paths) -> ParserContents]
    /\ tool \in ToolBehaviours
    /\ snapshot = NoFile
    /\ Fresh

NextHess == HessStep

SpecHess == InitHess /\ [][NextHess]_vars

----------------------------------------------------------------------------
(* The report alone: save_imgvibs on a mapping of any key order.            *)

R1 == <<"r", "1">>
R2 == <<"r", "2">>
R10 == <<"r", "1", "0">>

ReportNames ==
    {R1, R2, R10, <<"r", "0", "2">>, <<"r", "2", "a">>, <<"r">>, <<"2">>,
     <<"1", "0">>, <<"a", "2">>, <<"r", "-", "2">>}

\* The records of a key, in ascending or in descending index order.
ReportRecords(fn, given) ==
    LET lo == ImgVib(fn, 6, -2, PathJoin(fn, IMGVIB \o <<"6">> \o GIF))
        hi == ImgVib(fn, 7, -1, PathJoin(fn, IMGVIB \o <<"7">> \o GIF))
    IN  IF given = "ascending" THEN <<lo, hi>> ELSE <<hi, lo>>

ReportMappings ==
    {[i \in 1..Len(keys) |-> [key |-> keys[i], val |-> ReportRecords(keys[i], given)]] :
        keys \in {l \in SeqsOf(ReportNames, 0, MaxKeys) :
                     \A i, j \in 1..Len(l) : i # j => l[i] # l[j]},
        given \in {"ascending", "descending"}}

InitReport ==
    /\ mode = "imgvib"
    /\ imgvib_dict \in ReportMappings
    /\ paths = Keys(imgvib_dict)
    /\ content = [fn \in Range(paths) |-> <<>>]
    /\ tool = "faithful"
    /\ snapshot \in {NoFile, StaleSnapshot}
    /\ pc = "loop"
    /\ failure = "none"
    /\ k = Len(paths)
    /\ movie_fns = <<>>
    /\ disk = NoDisk
    /\ report = NoFile
    /\ trj_report = NoFile
    /\ wrote = {}
    /\ calls = <<>>
    /\ zips = <<>>
    /\ runs = 1

NextReport == SaveStep

SpecReport == InitReport /\ [][NextReport]_vars

----------------------------------------------------------------------------
(* Properties.                                                              *)

Ascending(indices) ==
    \A i, j \in 1..Len(indices) : i < j => indices[i] < indices[j]

RecordIndices(records) == [j \in 1..Len(records) |-> records[j].index]

\* C1: for a Hessian artifact whose spectrum block parses to S,
\* imgvibs_from_orca_hess selects exactly the pairs (i, S[i]) with S[i] < 0,
\* in ascending i: a position is selected iff its value is strictly negative
\* (a zero never is), and each selected value is the value at its own index.
\* The spectrum [-2, 0, -1] gives the indices [0, 2] with values [-2, -1].
C1_HessSelectsExactlyNegative ==
    \A z \in Range(zips) :
        LET S == z.source
        IN  /\ Len(z.values) = Len(z.indices)
            /\ \A i \in 0..(Len(S) - 1) :
                   (S[i + 1] < 0) <=> (\E j \in 1..Len(z.indices) : z.indices[j] = i)
            /\ \A j \in 1..Len(z.indices) :
                   /\ z.indices[j] \in 0..(Len(S) - 1)
                   /\ z.values[j] = S[z.indices[j] + 1]
            /\ Ascending(z.indices)
            /\ (S = <<-2, 0, -1>> => z.indices = <<0, 2>> /\ z.values = <<-2, -1>>)

C1_Witness ==
    \E z \in Range(zips) :
        z.source = <<-2, 0, -1>> /\ z.indices = <<0, 2>> /\ z.values = <<-2, -1>>

\* C2: whatever the tool prints, the index, value and movie sequences zipped
\* into ImgVib records have the same length, and the number of records is
\* that length.
C2_EqualLengths ==
    \A z \in Range(zips) :
        /\ Len(z.indices) = Len(z.values)
        /\ Len(z.values) = Len(z.movies)
        /\ Len(z.records) = Len(z.indices)

\* C3: the k-th path returned by run_orca_pltvib is the trajectory created for
\* the k-th requested mode index, and every record's movie is rendered from
\* the trajectory of the mode whose index the record carries.
C3_PositionalCorrespondence ==
    /\ \A z \in Range(zips) :
           \A i \in 1..Min(Len(z.trj_fns), Len(z.indices)) :
               z.trj_fns[i] = TrjPath(z.fn, z.indices[i])
    /\ \A z \in Range(zips) :
           \A j \in 1..Len(z.records) :
               \E c \in Range(calls) :
                   /\ c.movie_fn = z.records[j].movie
                   /\ c.trj_fn = TrjPath(z.fn, z.records[j].index)

SectionFns(text) == [i \in 1..Len(text) |-> text[i].fn]

Position(seq, x) == CHOOSE i \in 1..Len(seq) : seq[i] = x

Before(seq, x, y) ==
    (x \in Range(seq) /\ y \in Range(seq)) => Position(seq, x) < Position(seq, y)

\* C4: whatever the key order of the mapping, the report lists the artifacts
\* in natural order (r1, r2, r10), every artifact of the mapping exactly once,
\* and the records of each artifact in the order given.
C4_ReportNaturalOrder ==
    IMGVIB_REPORT_FILE \in wrote =>
        LET fns == SectionFns(report.text)
        IN  /\ Len(fns) = Len(imgvib_dict)
            /\ \A e \in Range(imgvib_dict) :
                   Cardinality({i \in 1..Len(fns) : fns[i] = e.key}) = 1
            /\ \A i, j \in 1..Len(fns) : i < j => ~NatLess(fns[j], fns[i])
            /\ Before(fns, R1, R2) /\ Before(fns, R2, R10) /\ Before(fns, R1, R10)
            /\ \A i \in 1..Len(fns) :
                   LET ivs == Lookup(imgvib_dict, fns[i])
                   IN  report.text[i].records = [j \in 1..Len(ivs) |-> Render(ivs[j])]

C4_Witness ==
    /\ IMGVIB_REPORT_FILE \in wrote
    /\ Keys(imgvib_dict) = <<R2, R10, R1>>
    /\ SectionFns(report.text) = <<R1, R2, R10>>

\* C5: in log mode and in Hessian mode, the records of an artifact are in
\* strictly ascending mode-index order when created, the mapping handed to
\* save_imgvibs holds them as created, and the report lists them in that
\* order.
C5_AscendingEndToEnd ==
    /\ \A z \in Range(zips) : Ascending(RecordIndices(z.records))
    /\ \A i \in 1..Len(imgvib_dict) :
           /\ imgvib_dict[i].key = zips[i].fn
           /\ imgvib_dict[i].val = zips[i].records
    /\ IMGVIB_REPORT_FILE \in wrote =>
           \A i \in 1..Len(report.text) :
               LET ivs == Lookup(imgvib_dict, report.text[i].fn)
               IN  /\ report.text[i].records = [j \in 1..Len(ivs) |-> Render(ivs[j])]
                   /\ Ascending(RecordIndices(report.text[i].records))

C5_Witness ==
    /\ IMGVIB_REPORT_FILE \in wrote
    /\ \E i \in 1..Len(report.text) :
           RecordIndices(report.text[i].records) = <<6, 7>>
    /\ zips # <<>>

\* C6: a second run on the same root directory, with the output directories
\* of the first run present, never fails with a directory-exists error:
\* movie_from_trajectory reuses an existing directory and writes the script,
\* renders and encodes as for a fresh one.
C6_ExistingDirReused ==
    /\ failure # "FileExistsError"
    /\ \A c \in Range(calls) :
           c.existed =>
               /\ c.trj_dir \in disk.dirs
               /\ \E sc \in disk.scripts : sc[1] = PathJoin(c.trj_dir, ANIMATE_SPT)
               /\ c.movie_fn # EMPTY
               /\ \E m \in disk.movies : m[1] = c.movie_fn /\ c.trj_fn \in m[2]

C6_Witness ==
    /\ runs = 2
    /\ pc = "done"
    /\ Len(calls) >= 2
    /\ \A c \in Range(calls) : c.existed


ArtifactErrors == {"AttributeError", "IndexError", "ValueError"}

\* C7 as claimed: an invocation in which any step fails, be it an artifact
\* or the rendering or writing of the report, writes neither the snapshot nor
\* the report; the two are never written one without the other.
C7_FailureWritesNeither ==
    /\ pc = "failed" => (YAML_FILE \notin wrote /\ IMGVIB_REPORT_FILE \notin wrote)
    /\ (YAML_FILE \in wrote) <=> (IMGVIB_REPORT_FILE \in wrote)

\* C7 amended: an invocation in which an artifact fails aborts and writes
\* neither file; the snapshot is written only after every artifact was
\* processed, and the report only after the snapshot; an invocation whose
\* report cannot be rendered or written has written the snapshot and not the
\* report.
C7_ArtifactFailureWritesNeither ==
    /\ (pc = "failed" /\ failure \in ArtifactErrors) => (wrote = {} /\ k < Len(paths))
    /\ YAML_FILE \in wrote => (k = Len(paths) /\ Len(imgvib_dict) = Len(paths))
    /\ IMGVIB_REPORT_FILE \in wrote => (YAML_FILE \in wrote /\ pc = "done")
    /\ (mode # "trj" /\ failure = "report_error") => wrote = {YAML_FILE}

C7_Witness ==
    /\ pc = "failed"
    /\ failure = "AttributeError"
    /\ k = 1
    /\ wrote = {}

\* float(text) of the repr of a float that holds a whole number.
FloatOfRepr(text) ==
    LET neg == text[1] = "-"
        dot == CHOOSE i \in 1..Len(text) : text[i] = "."
        mag == PyInt(SubSeq(text, IF neg THEN 2 ELSE 1, dot - 1))
    IN  IF neg THEN 0 - mag ELSE mag

YamlScalar(sc) ==
    CASE sc.type = "str" -> [str |-> sc.text]
      [] sc.type = "int" -> [int |-> PyInt(sc.text)]
      [] sc.type = "float" -> [float |-> FloatOfRepr(sc.text)]

\* The record a python/object/new:ImgVib node constructs: each field with the
\* type and value of its scalar.
YamlConstruct(node) ==
    [fn |-> YamlScalar(node.args[1]), index |-> YamlScalar(node.args[2]),
     value |-> YamlScalar(node.args[3]), movie |-> YamlScalar(node.args[4])]

\* The mapping a YAML document loads to; of two entries with one key the
\* later one counts.
YamlLoad(text) ==
    [key \in {text[i].key : i \in 1..Len(text)} |->
        LET last == CHOOSE i \in 1..Len(text) :
                        /\ text[i].key = key
                        /\ \A j \in (i + 1)..Len(text) : text[j].key # key
        IN  [j \in 1..Len(text[last].nodes) |-> YamlConstruct(text[last].nodes[j])]]

\* The mapping as Python holds it: str, int, float and str fields.
Typed(iv) ==
    [fn |-> [str |-> iv.fn], index |-> [int |-> iv.index],
     value |-> [float |-> iv.value], movie |-> [str |-> iv.movie]]

AsMapping(d) ==
    [key \in Range(Keys(d)) |->
        [j \in 1..Len(Lookup(d, key)) |-> Typed(Lookup(d, key)[j])]]

C9_LogIndicesFromSix ==
    mode = "imgvib" =>
        \A z \in Range(zips) :
            LET f == content[z.fn]
                n == Len(f)
            IN  /\ z.requests = <<[i \in 1..n |-> 5 + i]>>
                /\ \A j \in 1..Len(z.records) :
                       /\ z.records[j].index = 5 + j
                       /\ z.records[j].value = f[j]
                       /\ z.records[j].fn = z.fn
                /\ n = 0 => (z.requests = <<EMPTY>> /\ z.records = <<>>)

C9_Witness ==
    /\ mode = "imgvib"
    /\ \E z \in Range(zips) :
           /\ content[z.fn] = <<-2, -1>>
           /\ RecordIndices(z.records) = <<6, 7>>
           /\ z.records[1].value = -2 /\ z.records[2].value = -1

\* C10: within one run, two movie_from_trajectory calls for different
\* trajectories never resolve to the same output directory or the same movie
\* file, and each movie is encoded only from frames of its own trajectory.
C10_DistinctOutputs ==
    /\ \A c1, c2 \in Range(calls) :
           c1.trj_fn # c2.trj_fn =>
               (c1.trj_dir # c2.trj_dir /\ c1.movie_fn # c2.movie_fn)
    /\ \A c \in Range(calls) :
           \A m \in disk.movies : m[1] = c.movie_fn => m[2] = {c.trj_fn}

====
